---- MODULE Spec2Model ----
(***************************************************************************)
(* The GMA codec of gma-lite-rs: the Builder (src/builder.rs) that         *)
(* serialises an addon to a byte sink, and read (src/reader.rs) that       *)
(* parses a byte stream back to its entries.  Bytes are integers 0..255,   *)
(* byte strings and Rust Strings are sequences of bytes (a String's UTF-8  *)
(* encoding).                                                              *)
(***************************************************************************)
EXTENDS Integers, Sequences, FiniteSets, TLC

(* ---------------------------------------------------------------- bounds *)

\* The longest entry list a Builder is given.
MaxEntries == 2

\* The most metadata records a hand-made stream holds.
MaxRecords == 2

(* ------------------------------------------------------------- constants *)

\* b"GMAD"
HEADER == <<71, 77, 65, 68>>

VERSION == 3

\* std's DEFAULT_BUF_SIZE, the capacity BufWriter::new gives the buffer.
BufCap == 8192

\* The default author, "unknown".
DefaultAuthor == <<117, 110, 107, 110, 111, 119, 110>>

(* ------------------------------------------------------ fixed-width ints *)

RECURSIVE LEnat(_, _)
\* The n low bytes of the natural v, least significant first.
LEnat(v, n) == IF n = 0 THEN <<>> ELSE <<v % 256>> \o LEnat(v \div 256, n - 1)

\* to_le_bytes of an integer held in n bytes (two's complement): the low n
\* bytes, so a value wider than n bytes is cut as `as u32` cuts it.
to_le_bytes(v, n) ==
    IF v >= 0 THEN LEnat(v, n)
    ELSE LET m == LEnat((-v) - 1, n) IN [i \in 1..n |-> 255 - m[i]]

RECURSIVE LEsum(_, _)
\* The natural whose little-endian bytes are b[k], b[k+1], ...
LEsum(b, k) == IF k > Len(b) THEN 0 ELSE b[k] + 256 * LEsum(b, k + 1)

\* from_le_bytes of an unsigned integer.
from_le_bytes_u(b) == LEsum(b, 1)

\* from_le_bytes of a signed integer: the top bit is the sign.
from_le_bytes_i(b) ==
    IF b[Len(b)] >= 128
    THEN -(LEsum([i \in 1..Len(b) |-> 255 - b[i]], 1) + 1)
    ELSE LEsum(b, 1)

(* ------------------------------------------------------------ byte tools *)

HasNul(s) == \E i \in 1..Len(s) : s[i] = 0

Take(s, n) == SubSeq(s, 1, n)

Drop(s, n) == SubSeq(s, n + 1, Len(s))

RECURSIVE ConcatContents(_, _)
ConcatContents(es, i) ==
    IF i > Len(es) THEN <<>> ELSE es[i].content \o ConcatContents(es, i + 1)

(* ------------------------------------------------ String::from_utf8_lossy *)

\* U+FFFD in UTF-8.
REPLACEMENT == <<239, 191, 189>>

\* The byte at 1-based index i, 0 past the end (safe_get).
SafeGet(s, i) == IF i <= Len(s) THEN s[i] ELSE 0

IsCont(b) == b >= 128 /\ b <= 191

\* The sequence length the first byte announces (0: no valid first byte).
Utf8Width(b) ==
    IF b < 128 THEN 1
    ELSE IF b >= 194 /\ b <= 223 THEN 2
    ELSE IF b >= 224 /\ b <= 239 THEN 3
    ELSE IF b >= 240 /\ b <= 244 THEN 4
    ELSE 0

\* Whether b2 may follow the first byte b1 of a 3- or 4-byte sequence.
SecondOk(b1, b2) ==
    CASE b1 = 224 -> b2 >= 160 /\ b2 <= 191
      [] b1 = 237 -> b2 >= 128 /\ b2 <= 159
      [] b1 = 240 -> b2 >= 144 /\ b2 <= 191
      [] b1 = 244 -> b2 >= 128 /\ b2 <= 143
      [] OTHER -> IsCont(b2)

\* The number of bytes of the valid sequence at i, or minus the length of the
\* invalid chunk there.
Utf8Step(s, i) ==
    LET w == Utf8Width(s[i]) IN
    CASE w = 0 -> -1
      [] w = 1 -> 1
      [] w = 2 -> IF IsCont(SafeGet(s, i + 1)) THEN 2 ELSE -1
      [] w = 3 -> IF ~SecondOk(s[i], SafeGet(s, i + 1)) THEN -1
                  ELSE IF ~IsCont(SafeGet(s, i + 2)) THEN -2
                  ELSE 3
      [] OTHER -> IF ~SecondOk(s[i], SafeGet(s, i + 1)) THEN -1
                  ELSE IF ~IsCont(SafeGet(s, i + 2)) THEN -2
                  ELSE IF ~IsCont(SafeGet(s, i + 3)) THEN -3
                  ELSE 4

RECURSIVE LossyFrom(_, _)
LossyFrom(s, i) ==
    IF i > Len(s) THEN <<>>
    ELSE LET k == Utf8Step(s, i) IN
         IF k > 0 THEN SubSeq(s, i, i + k - 1) \o LossyFrom(s, i + k)
         ELSE REPLACEMENT \o LossyFrom(s, i - k)

\* String::from_utf8_lossy(&buf).into_owned(): the String's UTF-8 bytes.
from_utf8_lossy(buf) == LossyFrom(buf, 1)

(* ------------------------------------------------------------- BufWriter *)

\* BufWriter::new(&mut w) over a sink that has received `inner`.
BufWriter_new(inner) == [inner |-> inner, buf |-> <<>>]

\* BufWriter::write_all: data that does not fit the spare capacity flushes
\* the buffer first; data as large as the buffer goes straight to the sink.
BufWriter_write_all(bw, data) ==
    LET spare == BufCap - Len(bw.buf) IN
    IF Len(data) < spare THEN [bw EXCEPT !.buf = @ \o data]
    ELSE LET f == IF Len(data) > spare THEN [inner |-> bw.inner \o bw.buf, buf |-> <<>>]
                  ELSE bw
         IN IF Len(data) >= BufCap THEN [f EXCEPT !.inner = @ \o data]
            ELSE [f EXCEPT !.buf = @ \o data]

\* BufWriter::flush, and BufWriter's Drop, which flushes what the buffer
\* holds: the bytes the sink has received afterwards.
BufWriter_flush(bw) == [inner |-> bw.inner \o bw.buf, buf |-> <<>>]

(* --------------------------------------------------------------- Builder *)

\* write_cstring without its terminator (a mutant).
write_cstring_noterm(bw, s) ==
    IF HasNul(s) THEN [err |-> "InvalidInput", bw |-> bw]
    ELSE [err |-> "none", bw |-> BufWriter_write_all(bw, s)]

\* write_cstring: a string holding a 0x00 byte is refused before any of its
\* bytes is written; otherwise its bytes and one 0x00.
write_cstring(bw, s) ==
    IF HasNul(s) THEN [err |-> "InvalidInput", bw |-> bw]
    ELSE [err |-> "none",
          bw |-> BufWriter_write_all(BufWriter_write_all(bw, s), <<0>>)]

\* One step of write_to: bw.write_all(bytes) or write_cstring(&mut bw, s).
Raw(bytes) == [cstr |-> FALSE, bytes |-> bytes]

CStr(s) == [cstr |-> TRUE, bytes |-> s]

RECURSIVE MetaSteps0(_, _)
\* The metadata loop writing the 0-based index (a mutant).
MetaSteps0(es, i) ==
    IF i > Len(es) THEN <<>>
    ELSE << Raw(to_le_bytes(i - 1, 4)), CStr(es[i].name),
            Raw(to_le_bytes(Len(es[i].content), 8)), Raw(to_le_bytes(0, 4)) >>
         \o MetaSteps0(es, i + 1)

RECURSIVE MetaSteps(_, _)
\* The metadata loop of write_to from the i-th entry (1-based, so i is
\* `i as u32 + 1` of the code): index, name, size, CRC.
MetaSteps(es, i) ==
    IF i > Len(es) THEN <<>>
    ELSE << Raw(to_le_bytes(i, 4)), CStr(es[i].name),
            Raw(to_le_bytes(Len(es[i].content), 8)), Raw(to_le_bytes(0, 4)) >>
         \o MetaSteps(es, i + 1)

RECURSIVE ContentSteps(_, _)
\* The content loop of write_to.
ContentSteps(es, i) ==
    IF i > Len(es) THEN <<>>
    ELSE <<Raw(es[i].content)>> \o ContentSteps(es, i + 1)

\* write_to with the timestamp written before the owner identifier (a mutant).
WriteStepsSwapped(b, unix_time) ==
    << Raw(HEADER), Raw(to_le_bytes(VERSION, 1)),
       Raw(to_le_bytes(unix_time, 8)), Raw(to_le_bytes(b.steam_id64, 8)),
       Raw(<<0>>),
       CStr(b.name), CStr(b.description), CStr(b.author),
       Raw(to_le_bytes(1, 4)) >>
    \o MetaSteps(b.entries, 1)
    \o <<Raw(to_le_bytes(0, 4))>>
    \o ContentSteps(b.entries, 1)
    \o <<Raw(to_le_bytes(0, 4))>>

\* The writes of write_to in program order, unix_time being SystemTime::now().
WriteSteps(b, unix_time) ==
    << Raw(HEADER), Raw(to_le_bytes(VERSION, 1)),
       Raw(to_le_bytes(b.steam_id64, 8)), Raw(to_le_bytes(unix_time, 8)),
       Raw(<<0>>),
       CStr(b.name), CStr(b.description), CStr(b.author),
       Raw(to_le_bytes(1, 4)) >>
    \o MetaSteps(b.entries, 1)
    \o <<Raw(to_le_bytes(0, 4))>>
    \o ContentSteps(b.entries, 1)
    \o <<Raw(to_le_bytes(0, 4))>>

RECURSIVE RunSteps(_, _, _)
\* The steps from the k-th on, each followed by `?`: the first error returns.
RunSteps(steps, k, bw) ==
    IF k > Len(steps) THEN [err |-> "none", bw |-> bw]
    ELSE IF steps[k].cstr
         THEN LET r == write_cstring(bw, steps[k].bytes) IN
              IF r.err # "none" THEN r ELSE RunSteps(steps, k + 1, r.bw)
         ELSE RunSteps(steps, k + 1, BufWriter_write_all(bw, steps[k].bytes))

\* Builder::write_to on an empty in-memory sink: the result, and the bytes
\* the sink holds once write_to has returned (on success after bw.flush(),
\* on an error after bw is dropped, which flushes its buffer).
write_to(b, unix_time) ==
    LET r == RunSteps(WriteSteps(b, unix_time), 1, BufWriter_new(<<>>)) IN
    [ res  |-> IF r.err = "none" THEN "Ok" ELSE r.err,
      sink |-> BufWriter_flush(r.bw).inner ]

(* ---------------------------------------------------------------- reader *)

\* An io::Error of kind UnexpectedEof, turned into GmaError::Io by `?`.
IoEof(s) == [kind |-> "Io", io |-> "UnexpectedEof", pos |-> Len(s)]

\* read_exact of n bytes at offset pos.
read_exact(s, pos, n) ==
    IF pos + n <= Len(s)
    THEN [ok |-> TRUE, bytes |-> SubSeq(s, pos + 1, pos + n), pos |-> pos + n]
    ELSE [ok |-> FALSE, bytes |-> <<>>, pos |-> Len(s)]

\* discard_exact: io::copy of at most n bytes, an error unless n were copied.
discard_exact(s, pos, n) ==
    LET copied == IF pos + n <= Len(s) THEN n ELSE Len(s) - pos IN
    [ok |-> copied = n, pos |-> pos + copied]

read_i8(s, pos) ==
    LET r == read_exact(s, pos, 1) IN
    [ok |-> r.ok, val |-> IF r.ok THEN from_le_bytes_i(r.bytes) ELSE 0, pos |-> r.pos]

read_i64(s, pos) ==
    LET r == read_exact(s, pos, 8) IN
    [ok |-> r.ok, val |-> IF r.ok THEN from_le_bytes_i(r.bytes) ELSE 0, pos |-> r.pos]

read_u32(s, pos) ==
    LET r == read_exact(s, pos, 4) IN
    [ok |-> r.ok, val |-> IF r.ok THEN from_le_bytes_u(r.bytes) ELSE 0, pos |-> r.pos]

\* The offsets after pos that hold a 0x00 byte.
NulsFrom(s, pos) == {i \in (pos + 1)..Len(s) : s[i] = 0}

\* read_c_string: read_until(0) takes the bytes up to and with the first 0x00;
\* nothing read, or no 0x00 at the end, is MissingNullTerminator (ok = FALSE).
read_c_string(s, pos) ==
    IF NulsFrom(s, pos) = {}
    THEN [ok |-> FALSE, val |-> <<>>, pos |-> Len(s)]
    ELSE LET z == CHOOSE i \in NulsFrom(s, pos) : \A j \in NulsFrom(s, pos) : i <= j IN
         [ok |-> TRUE, val |-> from_utf8_lossy(SubSeq(s, pos + 1, z - 1)), pos |-> z]

\* A missing terminator reported as the end-of-stream I/O error (a mutant).
MissingAsIo(s) == IoEof(s)

\* GmaError::MissingNullTerminator.
MissingNullTerminator(s) == [kind |-> "MissingNullTerminator", pos |-> Len(s)]

\* A size check that lets every size through (a mutant).
SizeNegativeNever(size) == FALSE

\* `size_i64 < 0` of the metadata loop.
SizeNegative(size) == size < 0

\* The checksum held to the 0 the Builder writes (a mutant).
verify_crc32(s, pos) ==
    LET r == read_exact(s, pos, 4) IN
    [ok |-> r.ok /\ r.bytes = <<0, 0, 0, 0>>, pos |-> r.pos]

\* CRC32 (u32), discarded.
skip_crc32(s, pos) == discard_exact(s, pos, 4)

\* `idx == 0`: the index that ends the metadata loop.
LoopEnds(idx) == idx = 0

RECURSIVE MetaLoop(_, _, _)
\* The metadata loop: the error it returns, or the pending (name, size) list
\* and the offset after the terminating index.
MetaLoop(s, pos, meta) ==
    LET idx == read_u32(s, pos) IN
    IF ~idx.ok THEN [err |-> TRUE, res |-> IoEof(s)]
    ELSE IF LoopEnds(idx.val) THEN [err |-> FALSE, meta |-> meta, pos |-> idx.pos]
    ELSE LET nm == read_c_string(s, idx.pos) IN
    IF ~nm.ok THEN [err |-> TRUE, res |-> MissingNullTerminator(s)]
    ELSE LET sz == read_i64(s, nm.pos) IN
    IF ~sz.ok THEN [err |-> TRUE, res |-> IoEof(s)]
    ELSE IF SizeNegative(sz.val)
         THEN [err |-> TRUE,
               res |-> [kind |-> "SizeOutOfRange", size |-> sz.val, pos |-> sz.pos]]
    ELSE LET crc == skip_crc32(s, sz.pos) IN
    IF ~crc.ok THEN [err |-> TRUE, res |-> IoEof(s)]
    ELSE MetaLoop(s, crc.pos,
                  Append(meta, [name |-> nm.val, size |-> sz.val]))

RECURSIVE ContentLoop(_, _, _, _)
\* The content loop: size bytes for each pending entry, in the recorded order.
ContentLoop(s, pos, meta, entries) ==
    IF Len(entries) = Len(meta) THEN [err |-> FALSE, entries |-> entries, pos |-> pos]
    ELSE LET m == meta[Len(entries) + 1]
             c == read_exact(s, pos, m.size)
         IN IF ~c.ok THEN [err |-> TRUE, res |-> IoEof(s)]
            ELSE ContentLoop(s, c.pos, meta,
                             Append(entries, [name |-> m.name, size |-> m.size,
                                              content |-> c.bytes]))

\* A trailing check that accepts any marker (a mutant).
TrailingBadNever(trailing) == FALSE

\* `trailing != 0`.
TrailingBad(trailing) == trailing # 0

\* An Ok that also hands back addon metadata (a mutant).
OkWithMetadata(entries, pos) ==
    [kind |-> "Ok", ok |-> [entries |-> entries, addon_name |-> <<>>], pos |-> pos]

\* Ok(entries): the value read returns is the entry list and nothing else.
Ok(entries, pos) == [kind |-> "Ok", ok |-> [entries |-> entries], pos |-> pos]

\* The metadata loop, the contents and the trailing marker, from offset pos.
ReadBody(s, pos) ==
    LET ml == MetaLoop(s, pos, <<>>) IN
    IF ml.err THEN ml.res
    ELSE LET cl == ContentLoop(s, ml.pos, ml.meta, <<>>) IN
    IF cl.err THEN cl.res
    ELSE LET tr == read_u32(s, cl.pos) IN
    IF ~tr.ok THEN IoEof(s)
    ELSE IF TrailingBad(tr.val)
         THEN [kind |-> "TrailingMarkerMismatch", trailing |-> tr.val, pos |-> tr.pos]
    ELSE Ok(cl.entries, tr.pos)

\* A header check that accepts any magic (a mutant).
HeaderBadNever(hdr) == FALSE

\* `&hdr != HEADER`.
HeaderBad(hdr) == hdr # HEADER

\* read: the GmaError or the entries, and the offset the decoder stopped at.
read(s) ==
    LET hdr == read_exact(s, 0, 4) IN
    IF ~hdr.ok THEN IoEof(s)
    ELSE IF HeaderBad(hdr.bytes)
         THEN [kind |-> "InvalidHeader", hdr |-> hdr.bytes, pos |-> hdr.pos]
    ELSE LET v == read_i8(s, hdr.pos) IN
    IF ~v.ok THEN IoEof(s)
    ELSE IF v.val # VERSION
         THEN [kind |-> "InvalidVersion", v |-> v.val, pos |-> v.pos]
    ELSE LET steam == discard_exact(s, v.pos, 8) IN
    IF ~steam.ok THEN IoEof(s)
    ELSE LET ts == discard_exact(s, steam.pos, 8) IN
    IF ~ts.ok THEN IoEof(s)
    ELSE LET rc == discard_exact(s, ts.pos, 1) IN
    IF ~rc.ok THEN IoEof(s)
    ELSE LET nm == read_c_string(s, rc.pos) IN
    IF ~nm.ok THEN MissingNullTerminator(s)
    ELSE LET de == read_c_string(s, nm.pos) IN
    IF ~de.ok THEN MissingNullTerminator(s)
    ELSE LET au == read_c_string(s, de.pos) IN
    IF ~au.ok THEN MissingNullTerminator(s)
    ELSE LET av == discard_exact(s, au.pos, 4) IN
    IF ~av.ok THEN IoEof(s)
    ELSE ReadBody(s, av.pos)

(* ----------------------------------------------------------------- state *)

VARIABLES
    name, steam_id64, author, description, entries,  \* the Builder's fields
    sink,      \* what the sink of the latest write_to holds
    wres,      \* the latest write_to's result, "none" before the first
    prevSink,  \* the sink of the write_to before it on the same Builder value
    prevRes,   \* and its result
    stream,    \* the bytes handed to read
    rres,      \* what read returned for them
    how,       \* how stream was made: "none", "whole", "cut", "marker", "craft"
    craft,     \* the hand-made stream's generator: its phase and what it wrote
    alt,       \* a second stream, differing from stream in ignored fields only
    ares       \* what read returned for alt

builder == <<name, steam_id64, author, description, entries>>

decoder == <<stream, rres, how>>

crafted == <<craft, alt, ares>>

vars == <<name, steam_id64, author, description, entries, sink, wres,
          prevSink, prevRes, stream, rres, how, craft, alt, ares>>

\* The Builder as a value.
Builder ==
    [name |-> name, steam_id64 |-> steam_id64, author |-> author,
     description |-> description, entries |-> entries]

NoResult == [kind |-> "none", pos |-> 0]

(* ------------------------------------------------------------ input sets *)

\* Addon names: "g", and "g\0" with an embedded null byte.
Names == {<<103>>, <<103, 0>>}

\* i64 owner identifiers, one of them negative.
SteamIds == {-2, 76561}

\* Authors set by set_author: "b", "b\0".
Authors == {<<98>>, <<98, 0>>}

\* Descriptions set by set_description: "\0d", and a two-byte character.
Descriptions == {<<0, 100>>, <<195, 169>>}

\* Entry names: the two-byte character U+00E9, and "a\0".
EntryNames == {<<195, 169>>, <<97, 0>>}

\* Entry contents: empty, bytes with 0x00 and invalid UTF-8, and four zero
\* bytes (which look like the trailing marker).
Contents == {<<>>, <<0, 255>>, <<0, 0, 0, 0>>}

\* String contents handed to file_from_string.
StrContents == {<<>>, <<0, 0, 0, 0>>}

\* Seconds since the epoch SystemTime::now() may return.
Times == {1700000000, 1700000257}

\* Nonzero u32 values put in place of the trailing marker.
Markers == {1, 256, 2130706432}

(* --------------------------------------------------------------- actions *)

NoCraft == [phase |-> "off"]

\* The caller's sink and stream are dropped when the Builder is changed.
Forget ==
    /\ sink' = <<>> /\ wres' = "none" /\ prevSink' = <<>> /\ prevRes' = "none"
    /\ stream' = <<>> /\ rres' = NoResult /\ how' = "none"

\* Builder::new(name, steam_id64).
InitBuilder ==
    /\ name \in Names
    /\ steam_id64 \in SteamIds
    /\ author = DefaultAuthor
    /\ description = <<>>
    /\ entries = <<>>

Init ==
    /\ InitBuilder
    /\ sink = <<>> /\ wres = "none" /\ prevSink = <<>> /\ prevRes = "none"
    /\ stream = <<>> /\ rres = NoResult /\ how = "none"
    /\ craft = NoCraft /\ alt = <<>> /\ ares = NoResult

set_description(desc) ==
    /\ description' = desc
    /\ UNCHANGED <<name, steam_id64, author, entries>>
    /\ Forget
    /\ UNCHANGED crafted

set_author(a) ==
    /\ author' = a
    /\ UNCHANGED <<name, steam_id64, description, entries>>
    /\ Forget
    /\ UNCHANGED crafted

\* The entry file_from_bytes pushes.
NewEntry(n, bytes) == [name |-> n, content |-> bytes, size |-> Len(bytes)]

file_from_bytes(n, bytes) ==
    /\ Len(entries) < MaxEntries
    /\ entries' = Append(entries, NewEntry(n, bytes))
    /\ UNCHANGED <<name, steam_id64, author, description>>
    /\ Forget
    /\ UNCHANGED crafted

\* file_from_string: file_from_bytes of the String's bytes.
file_from_string(n, content) ==
    /\ Len(entries) < MaxEntries
    /\ entries' = Append(entries, NewEntry(n, content))
    /\ UNCHANGED <<name, steam_id64, author, description>>
    /\ Forget
    /\ UNCHANGED crafted

\* b.write_to(&mut sink) on a fresh sink, before the sink is read.
WriteTo(unix_time) ==
    LET r == write_to(Builder, unix_time) IN
    /\ how = "none"
    /\ sink' = r.sink
    /\ wres' = r.res
    /\ prevSink' = sink
    /\ prevRes' = wres
    /\ stream' = <<>> /\ rres' = NoResult /\ how' = "none"
    /\ UNCHANGED builder
    /\ UNCHANGED crafted

\* read(&sink[..]).  read only borrows the bytes, so a second read of a
\* sink returns what the first did: each written sink is read once.
Read ==
    /\ wres # "none"
    /\ how = "none"
    /\ stream' = sink
    /\ rres' = read(sink)
    /\ how' = "whole"
    /\ UNCHANGED <<builder, sink, wres, prevSink, prevRes, crafted>>

\* read(&sink[..k]) of a written stream cut after k >= 4 bytes.
ReadTruncated(k) ==
    /\ wres = "Ok"
    /\ how = "none"
    /\ k >= 4 /\ k < Len(sink)
    /\ stream' = Take(sink, k)
    /\ rres' = read(Take(sink, k))
    /\ how' = "cut"
    /\ UNCHANGED <<builder, sink, wres, prevSink, prevRes, crafted>>

\* read of a written stream whose final 4 bytes are replaced by v.
ReadTampered(v) ==
    /\ wres = "Ok"
    /\ how = "none"
    /\ stream' = Take(sink, Len(sink) - 4) \o to_le_bytes(v, 4)
    /\ rres' = read(Take(sink, Len(sink) - 4) \o to_le_bytes(v, 4))
    /\ how' = "marker"
    /\ UNCHANGED <<builder, sink, wres, prevSink, prevRes, crafted>>

\* The longest stream write_to makes within the bounds is shorter than this.
MaxStream == 64 + 32 * MaxEntries

Next ==
    \/ \E d \in Descriptions : set_description(d)
    \/ \E a \in Authors : set_author(a)
    \/ \E n \in EntryNames, c \in Contents : file_from_bytes(n, c)
    \/ \E n \in EntryNames, c \in StrContents : file_from_string(n, c)
    \/ \E t \in Times : WriteTo(t)
    \/ Read
    \/ \E k \in 4..MaxStream : ReadTruncated(k)
    \/ \E v \in Markers : ReadTampered(v)

Spec == Init /\ [][Next]_vars

(* ------------------------------------------------------ hand-made streams *)

\* Magic values a stream may start with: "GMAD" and "GMAd".
Magics == {HEADER, <<71, 77, 65, 100>>}

\* Version bytes: 3 and -3.
Versions == {3, -3}

\* Values of the owner identifier, the timestamp and the required-content flag.
Fixed1 == [owner |-> -2, ts |-> 1700000000, flag |-> 0]

Fixed2 == [owner |-> 76561, ts |-> 0, flag |-> 255]

FixedBytes(f) ==
    to_le_bytes(f.owner, 8) \o to_le_bytes(f.ts, 8) \o to_le_bytes(f.flag, 1)

\* Addon strings: empty, and "n" followed by a byte that is not UTF-8.
AddonStrings == {<<>>, <<110, 255>>}

\* Index values of a record in the two streams: equal, or 7 against 256.
IndexPairs == {<<1, 1>>, <<7, 256>>}

\* Record names: "e", and a byte that is not UTF-8.
RecordNames == {<<101>>, <<255>>}

\* Declared sizes: one that is fine and two negative ones.
Sizes == {2, -1, -256}

\* A record's checksum in the two streams.
CrcPair == <<0, 305419896>>

\* The addon version in the two streams.
AddonVersionPair == <<1, -5>>

\* Content bytes.
Filler(n) == [i \in 1..n |-> IF i % 2 = 1 THEN 0 ELSE 200]

InitDecode ==
    /\ name = <<103>> /\ steam_id64 = -2 /\ author = DefaultAuthor
    /\ description = <<>> /\ entries = <<>>
    /\ sink = <<>> /\ wres = "none" /\ prevSink = <<>> /\ prevRes = "none"
    /\ stream = <<>> /\ rres = NoResult /\ how = "none"
    /\ craft = [phase |-> "magic", good |-> TRUE, negSize |-> 0, negEnd |-> 0,
                need |-> 0, short |-> 0, recs |-> <<>>]
    /\ alt = <<>> /\ ares = NoResult

\* The two streams get the bytes x and y, and the generator moves on.
Put(x, y, c) ==
    /\ how = "none"
    /\ stream' = stream \o x
    /\ alt' = alt \o y
    /\ craft' = c
    /\ UNCHANGED <<builder, sink, wres, prevSink, prevRes, rres, how, ares>>

PutMagic(m) ==
    /\ craft.phase = "magic"
    /\ Put(m, m, [craft EXCEPT !.phase = "version", !.good = (m = HEADER)])

PutVersion(v) ==
    /\ craft.phase = "version"
    /\ Put(to_le_bytes(v, 1), to_le_bytes(v, 1),
           [craft EXCEPT !.phase = "fixed", !.good = (@ /\ v = VERSION)])

PutFixed(f, g) ==
    /\ craft.phase = "fixed"
    /\ Put(FixedBytes(f), FixedBytes(g), [craft EXCEPT !.phase = "strings"])

\* The addon name, description ("d") and author, and the addon version.
PutStrings(n, d) ==
    /\ craft.phase = "strings"
    /\ Put(n \o <<0>> \o d \o <<0>> \o DefaultAuthor \o <<0>>
             \o to_le_bytes(AddonVersionPair[1], 4),
           n \o <<0>> \o d \o <<0>> \o DefaultAuthor \o <<0>>
             \o to_le_bytes(AddonVersionPair[2], 4),
           [craft EXCEPT !.phase = "records"])

\* One metadata record: index, name, size, checksum.
PutRecord(ix, n, size) ==
    /\ craft.phase = "records"
    /\ Len(craft.recs) < MaxRecords
    /\ Put(to_le_bytes(ix[1], 4) \o n \o <<0>> \o to_le_bytes(size, 8)
             \o to_le_bytes(CrcPair[1], 4),
           to_le_bytes(ix[2], 4) \o n \o <<0>> \o to_le_bytes(size, 8)
             \o to_le_bytes(CrcPair[2], 4),
           [craft EXCEPT
              !.recs = Append(@, [name |-> n, size |-> size]),
              !.need = IF size > 0 THEN @ + size ELSE @,
              !.negSize = IF craft.negEnd = 0 /\ size < 0 THEN size ELSE @,
              !.negEnd = IF craft.negEnd = 0 /\ size < 0
                         THEN Len(stream) + 4 + Len(n) + 1 + 8 ELSE @])

\* The index 0 that ends the metadata.
PutTerminator ==
    /\ craft.phase = "records"
    /\ Put(to_le_bytes(0, 4), to_le_bytes(0, 4), [craft EXCEPT !.phase = "contents"])

\* The contents: the declared bytes, or `short` fewer.
PutContents(short) ==
    /\ craft.phase = "contents"
    /\ craft.need >= short
    /\ Put(Filler(craft.need - short), Filler(craft.need - short),
           [craft EXCEPT !.phase = "marker", !.short = short])

PutMarker(v) ==
    /\ craft.phase = "marker"
    /\ Put(to_le_bytes(v, 4), to_le_bytes(v, 4), [craft EXCEPT !.phase = "end"])

\* read of each of the two streams, as far as they have been written.
Decode ==
    /\ craft.phase # "off"
    /\ how = "none"
    /\ rres' = read(stream)
    /\ ares' = read(alt)
    /\ how' = "craft"
    /\ UNCHANGED <<builder, sink, wres, prevSink, prevRes, stream, craft, alt>>

NextDecode ==
    \/ \E m \in Magics : PutMagic(m)
    \/ \E v \in Versions : PutVersion(v)
    \/ \E g \in {Fixed1, Fixed2} : PutFixed(Fixed1, g)
    \/ \E n \in AddonStrings : PutStrings(n, <<100>>)
    \/ \E ix \in IndexPairs, n \in RecordNames, size \in Sizes : PutRecord(ix, n, size)
    \/ PutTerminator
    \/ \E short \in {0, 1} : PutContents(short)
    \/ \E v \in {0, 5} : PutMarker(v)
    \/ Decode

SpecDecode == InitDecode /\ [][NextDecode]_vars

(* ---------------------------------------------------------------- claims *)

\* No string field of the Builder holds a 0x00 byte.
ValidBuilder ==
    /\ ~HasNul(name) /\ ~HasNul(description) /\ ~HasNul(author)
    /\ \A i \in 1..Len(entries) : ~HasNul(entries[i].name)

\* C1: a Builder without null bytes in its strings is written with success,
\* and read of the written bytes returns the appended entries: as many, in
\* the same order, each with the same name and the same content.
C1_RoundTrip ==
    /\ (wres # "none" /\ ValidBuilder) => wres = "Ok"
    /\ (how = "whole" /\ ValidBuilder) =>
          /\ rres.kind = "Ok"
          /\ Len(rres.ok.entries) = Len(entries)
          /\ \A i \in 1..Len(entries) :
                /\ rres.ok.entries[i].name = entries[i].name
                /\ rres.ok.entries[i].content = entries[i].content

\* A round trip of two entries of the same name, one empty, one with 0x00.
C1_Witness ==
    /\ how = "whole" /\ ValidBuilder /\ rres.kind = "Ok"
    /\ Len(entries) = 2
    /\ entries[1].name = entries[2].name
    /\ entries[1].content = <<>>
    /\ HasNul(entries[2].content)

C3_NullByteRejection ==
    (wres # "none" /\ ~ValidBuilder) => (wres = "InvalidInput" /\ sink = <<>>)

\* C3's error alone: the null byte is refused with InvalidInput.
C3_Rejected ==
    (wres # "none" /\ ~ValidBuilder) => wres = "InvalidInput"

\* The 0-based offsets (a, z) of the null-terminated strings of the stream
\* write_to makes: a is the offset of the first byte, z of the terminator.
RECURSIVE EntryNameSpans(_, _)
EntryNameSpans(i, off) ==
    IF i > Len(entries) THEN {}
    ELSE {<<off + 4, off + 4 + Len(entries[i].name)>>}
         \cup EntryNameSpans(i + 1, off + 4 + Len(entries[i].name) + 1 + 8 + 4)

\* The offset of the addon-version field.
VersionFieldAt == 22 + Len(name) + 1 + Len(description) + 1 + Len(author) + 1

StringSpans ==
    { <<22, 22 + Len(name)>>,
      <<22 + Len(name) + 1, 22 + Len(name) + 1 + Len(description)>>,
      <<22 + Len(name) + 1 + Len(description) + 1, VersionFieldAt - 1>> }
    \cup EntryNameSpans(1, VersionFieldAt + 4)

\* The cut falls inside a string, or right before its first byte.
CutInString(k) == \E sp \in StringSpans : sp[1] <= k /\ k <= sp[2]

\* C4 as claimed: read of a written stream cut after its header returns the
\* I/O error kind.
C4_Original == how = "cut" => rres.kind = "Io"

\* C4 as amended: read of a written stream cut after its header never
\* succeeds; it returns MissingNullTerminator when the cut falls inside or
\* right before a null-terminated string, and the I/O error (UnexpectedEof)
\* for every other cut.
C4_Truncation ==
    how = "cut" =>
       IF CutInString(Len(stream))
       THEN rres.kind = "MissingNullTerminator"
       ELSE rres.kind = "Io" /\ rres.io = "UnexpectedEof"

\* A cut inside the name of the second entry, and so past the first record.
C4_Witness ==
    /\ how = "cut" /\ rres.kind = "MissingNullTerminator"
    /\ Len(entries) = 2
    /\ Len(stream) > VersionFieldAt + 4 + 4 + Len(entries[1].name) + 1 + 12 + 4

\* A cut inside the contents, which is an I/O error.
C4_WitnessIo ==
    /\ how = "cut" /\ rres.kind = "Io"
    /\ Len(entries) = 2
    /\ Len(stream) = Len(sink) - 5

RECURSIVE RecordsLen(_)
\* The length of the metadata records from the i-th entry on.
RecordsLen(i) ==
    IF i > Len(entries) THEN 0
    ELSE 4 + Len(entries[i].name) + 1 + 8 + 4 + RecordsLen(i + 1)

\* The offset of the trailing marker in the stream write_to makes: after the
\* records, the terminating index and the contents.
TrailerAt ==
    VersionFieldAt + 4 + RecordsLen(1) + 4 + Len(ConcatContents(entries, 1))

\* C6: a written stream whose final 4 bytes are replaced by a nonzero v is
\* refused with TrailingMarkerMismatch(v), and read succeeds only on a stream
\* whose final 4 bytes, after the last content, are zero.
C6_TrailingMarker ==
    /\ how = "marker" =>
          /\ rres.kind = "TrailingMarkerMismatch"
          /\ \E v \in Markers :
                /\ stream = Take(sink, Len(sink) - 4) \o to_le_bytes(v, 4)
                /\ rres.trailing = v
    /\ (how \in {"whole", "cut", "marker"} /\ rres.kind = "Ok") =>
          /\ Len(stream) = TrailerAt + 4
          /\ SubSeq(stream, TrailerAt + 1, TrailerAt + 4) = <<0, 0, 0, 0>>

\* A replaced marker after two entries, the last content being four zeros.
C6_Witness ==
    /\ how = "marker" /\ rres.kind = "TrailingMarkerMismatch"
    /\ rres.trailing = 256
    /\ Len(entries) = 2
    /\ entries[2].content = <<0, 0, 0, 0>>

\* A replaced marker of a stream without entries.
C6_WitnessEmpty ==
    /\ how = "marker" /\ rres.kind = "TrailingMarkerMismatch" /\ entries = <<>>

\* The stream and the sink of the write before it agree at the 1-based
\* index i.
SameByte(i) == sink[i] = prevSink[i]

\* C8: write_to leaves the Builder as it was; every stream a successful
\* write_to makes is accepted by read; two write_to calls on the same Builder
\* value end alike and fill their sinks with streams of one length that
\* differ at most in the 8 timestamp bytes, offsets 13 to 20.
C8_StateInv ==
    /\ (how = "whole" /\ wres = "Ok") => rres.kind = "Ok"
    /\ (wres # "none" /\ prevRes # "none") =>
          /\ wres = prevRes
          /\ Len(sink) = Len(prevSink)
          /\ \A i \in 1..Len(sink) : (i < 14 \/ i > 21) => SameByte(i)

C8_RepeatableEncode ==
    /\ []C8_StateInv
    /\ [][wres' # "none" => UNCHANGED builder]_vars

\* Two successful writes of one Builder at different times, then a read.
C8_Witness ==
    /\ wres = "Ok" /\ prevRes = "Ok" /\ sink # prevSink
    /\ how = "whole" /\ rres.kind = "Ok"
    /\ Len(entries) = 2

\* Two failed writes of one Builder at different times.
C8_WitnessFailed ==
    /\ wres = "InvalidInput" /\ prevRes = "InvalidInput" /\ sink # prevSink

\* The k-th metadata record as the claim states it, for k < 256 and a content
\* shorter than 256 bytes.
ClaimedRecord(k) ==
    <<k, 0, 0, 0>> \o entries[k].name \o <<0>>
    \o <<Len(entries[k].content), 0, 0, 0, 0, 0, 0, 0>> \o <<0, 0, 0, 0>>

RECURSIVE ClaimedRecords(_)
ClaimedRecords(k) ==
    IF k > Len(entries) THEN <<>> ELSE ClaimedRecord(k) \o ClaimedRecords(k + 1)

\* C9: after the addon-version field a written stream holds one record per
\* entry in append order (index k counted from 1 and so never 0, name, 0x00,
\* size of the content, checksum 0), a zero u32, the contents one after the
\* other in append order, and a zero u32.
C9_TwoPhaseLayout ==
    wres = "Ok" =>
       Drop(sink, VersionFieldAt + 4) =
          ClaimedRecords(1) \o <<0, 0, 0, 0>>
          \o ConcatContents(entries, 1) \o <<0, 0, 0, 0>>

\* A written stream of two entries with contents.
C9_Witness ==
    /\ wres = "Ok" /\ Len(entries) = 2
    /\ entries[1].content # <<>> /\ entries[2].content # entries[1].content
    /\ entries[2].content # <<>>

\* C5: in a stream that is well formed up to a record of negative size, read
\* returns SizeOutOfRange with the first such size, having stopped right after
\* the size field, whatever the checksum, the later records, the contents and
\* the trailing marker are, and whether they are there at all.
C5_NegativeSize ==
    (how = "craft" /\ craft.good /\ craft.negEnd > 0) =>
       /\ rres = [kind |-> "SizeOutOfRange", size |-> craft.negSize,
                  pos |-> craft.negEnd]
       /\ ares = rres

\* A complete stream whose second record has a negative size, with a bad
\* trailing marker.
C5_Witness ==
    /\ how = "craft" /\ craft.good /\ craft.phase = "end"
    /\ Len(craft.recs) = 2
    /\ craft.recs[1].size > 0 /\ craft.recs[2].size < 0
    /\ rres.kind = "SizeOutOfRange"
    /\ SubSeq(stream, Len(stream) - 3, Len(stream)) # <<0, 0, 0, 0>>

\* A stream that ends with the record of negative size.
C5_WitnessNoTail ==
    /\ how = "craft" /\ craft.good /\ craft.phase = "records"
    /\ craft.negEnd > 0 /\ Len(craft.recs) = 1
    /\ rres.kind = "SizeOutOfRange"

\* C7: read of a stream of at least 4 bytes that does not start with "GMAD"
\* returns InvalidHeader with those 4 bytes, whatever follows them.
C7_HeaderRejection ==
    (how = "craft" /\ Len(stream) >= 4 /\ Take(stream, 4) # HEADER) =>
       /\ rres.kind = "InvalidHeader"
       /\ rres.hdr = Take(stream, 4)

\* A bad magic followed by a bad version and a record of negative size.
C7_Witness ==
    /\ how = "craft" /\ rres.kind = "InvalidHeader"
    /\ Len(stream) > 5 /\ stream[5] # VERSION
    /\ craft.negEnd > 0

\* A stream of the 4 bytes of a bad magic alone.
C7_WitnessShort ==
    /\ how = "craft" /\ rres.kind = "InvalidHeader" /\ Len(stream) = 4

\* What read's outcome is made of: the error kind, or Ok with the entries.
Outcome(r) == IF r.kind = "Ok" THEN <<"Ok", r.ok.entries>> ELSE <<r.kind, <<>>>>

\* C10: two streams that differ only in the values of the owner identifier,
\* the timestamp, the required-content flag, the addon version, the checksums
\* and the nonzero record indices get the same outcome from read; and every
\* entry read returns has a size equal to the length of its content.
C10_IgnoredFields ==
    how = "craft" =>
       /\ Outcome(rres) = Outcome(ares)
       /\ rres.kind = "Ok" =>
             \A i \in 1..Len(rres.ok.entries) :
                rres.ok.entries[i].size = Len(rres.ok.entries[i].content)

\* Two streams that differ in every ignored field, read with success.
C10_Witness ==
    /\ how = "craft" /\ rres.kind = "Ok" /\ ares.kind = "Ok"
    /\ Len(rres.ok.entries) = 2
    /\ SubSeq(stream, 6, 22) # SubSeq(alt, 6, 22)
    /\ \E i \in 1..Len(stream) : stream[i] = 7 /\ alt[i] = 0

====
